---- MODULE Spec2Model ----
(***************************************************************************)
(* A model of the SimaPro importer of bw2data (io/import_simapro.py):      *)
(* SimaProImporter.importer and the functions it calls, over rows of      *)
(* string fields, together with the external store it commits to; of      *)
(* Mapping (meta.py); and of create_unique_id (backends/schema.py).        *)
(*                                                                         *)
(* Python values are modelled as follows.  A str is a TLA+ string; a list  *)
(* or tuple is a sequence; a dict is a function; False (as a location) and *)
(* None (as a database name) are the reserved strings PyFalse and PyNone;  *)
(* a float is an exact decimal <<mantissa, scale>> in lowest form.  A      *)
(* function that can raise returns [ok, err, val].                         *)
(***************************************************************************)
EXTENDS Integers, Sequences, FiniteSets, TLC

VARIABLES
    data,         \* the rows read by load_file
    db_name,      \* self.db_name
    overwrite,    \* self.overwrite
    depends,      \* self.depends
    default_geo,  \* self.default_geo
    pc,           \* position of the run inside importer()
    err,          \* the exception that ended the run, or NoError
    format,       \* local `format` of importer()
    blocks,       \* local `data` of importer() after clean_data
    datasets,     \* local `data` of importer() after process_data / link_exchanges
    foreground,   \* self.foreground
    background,   \* self.background
    databases,    \* the store: registry of collection names (bw2data.databases)
    store,        \* the store: name -> written collection
    calls,        \* the store: log of register / write / process calls
    store0,       \* snapshot of <<databases, store>> taken before the run
    result,       \* value returned by a function applied on its own
    mapping,      \* meta.py: Mapping.data, key -> integer
    pickled,      \* meta.py: the content of mapping.pickle, written by flush()
    mapping0,     \* meta.py: Mapping.data as it was before the last call
    called,       \* meta.py: the last call on the Mapping, [op, keys]
    ids,          \* schema.py: the module-level list `ids`
    ActivityDataset,  \* schema.py: the saved rows of the table, [id, matrix_id]
    ProductDataset,   \* schema.py: the saved rows of the table, [id, matrix_id]
    pending,      \* schema.py: model instances constructed and not yet saved
    returned      \* schema.py: the values returned by create_unique_id so far

importerVars == <<data, db_name, overwrite, depends, default_geo, pc, err, format,
                  blocks, datasets, foreground, background, databases, store, calls,
                  store0, result>>
metaVars == <<mapping, pickled, mapping0, called>>
schemaVars == <<ids, ActivityDataset, ProductDataset, pending, returned>>

vars == <<importerVars, metaVars, schemaVars>>

PyFalse == "<False>"
PyNone == "<None>"
NoError == "<no error>"
Unset == "<unset>"

Ok(v) == [ok |-> TRUE, err |-> NoError, val |-> v]
Raise(e) == [ok |-> FALSE, err |-> e, val |-> Unset]

-----------------------------------------------------------------------------
(* Strings *)

Char(s, i) == SubSeq(s, i, i)

UpperChars == "ABCDEFGHIJKLMNOPQRSTUVWXYZ"
LowerChars == "abcdefghijklmnopqrstuvwxyz"
DigitChars == "0123456789"

IndexIn(c, alphabet) ==
    IF \E i \in 1..Len(alphabet) : Char(alphabet, i) = c
    THEN CHOOSE i \in 1..Len(alphabet) : Char(alphabet, i) = c
    ELSE 0

IsUpper(c) == IndexIn(c, UpperChars) > 0
IsDigit(c) == IndexIn(c, DigitChars) > 0

AllUpper(s) == \A i \in 1..Len(s) : IsUpper(Char(s, i))
AllDigits(s) == \A i \in 1..Len(s) : IsDigit(Char(s, i))

LowerChar(c) == IF IsUpper(c) THEN Char(LowerChars, IndexIn(c, UpperChars)) ELSE c

RECURSIVE Lower(_)
Lower(s) == IF s = "" THEN "" ELSE LowerChar(Char(s, 1)) \o Lower(SubSeq(s, 2, Len(s)))

Contains(s, sub) ==
    \E i \in 1..(Len(s) - Len(sub) + 1) : SubSeq(s, i, i + Len(sub) - 1) = sub

\* str.split(sep) for a one-character separator
RECURSIVE Split(_, _)
Split(s, sep) ==
    IF \E i \in 1..Len(s) : Char(s, i) = sep
    THEN LET i == CHOOSE j \in 1..Len(s) :
                      /\ Char(s, j) = sep
                      /\ \A k \in 1..(j - 1) : Char(s, k) # sep
         IN  <<SubSeq(s, 1, i - 1)>> \o Split(SubSeq(s, i + 1, Len(s)), sep)
    ELSE <<s>>

-----------------------------------------------------------------------------
(* float(): decimal literals [sign] digits [ "." digits ]; anything else   *)
(* raises ValueError.  The value is <<mantissa, scale>> = mantissa / 10^scale *)
(* with no trailing zero in the fraction.                                   *)

RECURSIVE DigitsValue(_)
DigitsValue(s) ==
    IF s = "" THEN 0
    ELSE 10 * DigitsValue(SubSeq(s, 1, Len(s) - 1)) + (IndexIn(Char(s, Len(s)), DigitChars) - 1)

RECURSIVE StripZeros(_)
StripZeros(s) ==
    IF s # "" /\ Char(s, Len(s)) = "0" THEN StripZeros(SubSeq(s, 1, Len(s) - 1)) ELSE s

PointAt(s) ==
    IF \E i \in 1..Len(s) : Char(s, i) = "."
    THEN CHOOSE i \in 1..Len(s) : Char(s, i) = "." /\ \A k \in 1..(i - 1) : Char(s, k) # "."
    ELSE 0

Unsigned(s) == IF s # "" /\ Char(s, 1) \in {"-", "+"} THEN SubSeq(s, 2, Len(s)) ELSE s
IntPart(s) == IF PointAt(s) = 0 THEN s ELSE SubSeq(s, 1, PointAt(s) - 1)
FracPart(s) == IF PointAt(s) = 0 THEN "" ELSE SubSeq(s, PointAt(s) + 1, Len(s))

is_number(x) ==
    LET u == Unsigned(x) IN
        /\ AllDigits(IntPart(u)) /\ AllDigits(FracPart(u))
        /\ Len(IntPart(u)) + Len(FracPart(u)) > 0

float(x) ==
    IF ~is_number(x) THEN Raise("ValueError")
    ELSE LET u == Unsigned(x)
             frac == StripZeros(FracPart(u))
             m == DigitsValue(IntPart(u) \o frac)
         IN  Ok(<<IF Char(x, 1) = "-" THEN 0 - m ELSE m, Len(frac)>>)

-----------------------------------------------------------------------------
(* detoxify: the pattern '/(?P<geo>[A-Z]{2,10})(/I)? [SU]$' *)

GeoOf(t) ==
    LET mid == SubSeq(t, 2, Len(t) - 2) IN
        IF Len(mid) >= 2 /\ SubSeq(mid, Len(mid) - 1, Len(mid)) = "/I"
        THEN SubSeq(mid, 1, Len(mid) - 2)
        ELSE mid

MatchAt(s, i) ==
    LET t == SubSeq(s, i, Len(s))
        n == Len(t)
    IN  /\ n >= 5
        /\ Char(t, 1) = "/"
        /\ Char(t, n - 1) = " "
        /\ Char(t, n) \in {"S", "U"}
        /\ AllUpper(GeoOf(t))
        /\ Len(GeoOf(t)) >= 2
        /\ Len(GeoOf(t)) <= 10

detoxify(string) ==
    IF \E i \in 1..Len(string) : MatchAt(string, i)
    THEN LET i == CHOOSE j \in 1..Len(string) :
                      MatchAt(string, j) /\ \A k \in 1..(j - 1) : ~MatchAt(string, k)
         IN  <<SubSeq(string, 1, i - 1), GeoOf(SubSeq(string, i, Len(string)))>>
    ELSE <<string, PyFalse>>

\* the biosphere labels with "Resources" left out
SIMAPRO_BIOSPHERE_NoResources == {"Emissions to air", "Emissions to water", "Emissions to soil"}

SIMAPRO_BIOSPHERE == {"Resources", "Emissions to air", "Emissions to water", "Emissions to soil"}

-----------------------------------------------------------------------------
(* Python lists with 0-based indices, dicts *)

At(seq, i) == seq[i + 1]
Min(a, b) == IF a < b THEN a ELSE b
Slice(seq, a, b) == SubSeq(seq, a + 1, Min(b, Len(seq)))
From(seq, a) == SubSeq(seq, a + 1, Len(seq))
Range(a, b) == [i \in 1..(b - a) |-> a + i - 1]

EmptyDict == << >>
DictSet(d, k, v) == [x \in (DOMAIN d) \cup {k} |-> IF x = k THEN v ELSE d[x]]
DictUpdate(d, e) == [x \in (DOMAIN d) \cup (DOMAIN e) |-> IF x \in DOMAIN e THEN e[x] ELSE d[x]]

\* dict([(k, v), ...]): a later pair replaces an earlier one with the same key
DictFromPairs(pairs) ==
    [k \in {pairs[i][1] : i \in DOMAIN pairs} |->
        LET last == CHOOSE i \in DOMAIN pairs :
                        /\ pairs[i][1] = k
                        /\ \A j \in DOMAIN pairs : pairs[j][1] = k => j <= i
        IN  pairs[last][2]]

\* a metadata value: a str, or a list of str
Scalar(v) == <<"str", v>>
List(vs) == <<"list">> \o vs

\* first exception raised by a list comprehension [f(x) for x in xs],
\* given the sequence of the results of f
FirstError(rs) ==
    LET i == CHOOSE j \in DOMAIN rs : ~rs[j].ok /\ \A k \in 1..(j - 1) : rs[k].ok
    IN  rs[i].err
AllOk(rs) == \A i \in DOMAIN rs : rs[i].ok
Collect(rs) == IF AllOk(rs) THEN Ok([i \in DOMAIN rs |-> rs[i].val]) ELSE Raise(FirstError(rs))

-----------------------------------------------------------------------------
(* Collaborators outside the importer *)

\* bw2data.units.normalize_units: maps a unit name to its canonical name
normalize_units(unit) == IF Lower(unit) = "kg" THEN "kilogram" ELSE unit

\* bw2data.utils.activity_hash: a stable hash over name, unit, location, categories
activity_hash(ds) == <<ds.name, ds.unit, ds.location, ds.categories>>

-----------------------------------------------------------------------------
(* Dataset Segmenter *)

IsProcessMarker(row) == Len(row) > 0 /\ row[1] = "Process" /\ Len(row) = 1

\* get_process_indices without the len(data[x]) == 1 test
get_process_indices_AnyLength(rows) ==
    LET Marker(x) == Len(At(rows, x)) > 0 /\ At(rows, x)[1] = "Process"
    IN  SelectSeq(Range(2, Len(rows)), Marker) \o <<Len(rows) + 1>>

get_process_indices(rows) ==
    LET Marker(x) == IsProcessMarker(At(rows, x))
    IN  SelectSeq(Range(2, Len(rows)), Marker) \o <<Len(rows) + 1>>

\* returns the new self.db_name and the list of blocks
clean_data(name, rows) ==
    IF name = PyNone /\ (Len(rows) < 2 \/ Len(At(rows, 1)) = 0) THEN Raise("IndexError")
    ELSE IF name = PyNone /\ At(rows, 1)[1] # "Project" THEN Raise("NoProjectName")
    ELSE IF name = PyNone /\ Len(At(rows, 1)) < 2 THEN Raise("IndexError")
    ELSE LET process_indices == get_process_indices(rows)
         IN  Ok([db_name |-> IF name = PyNone THEN At(rows, 1)[2] ELSE name,
                 process_data |->
                    [x \in 1..(Len(process_indices) - 1) |->
                        Slice(rows, process_indices[x], process_indices[x + 1])]])

-----------------------------------------------------------------------------
(* Per-block extraction *)

IsProducts(row) == Len(row) > 0 /\ row[1] = "Products"

\* -1 stands for the None returned when the block has no Products row
get_exchanges_index(dataset) ==
    IF \E x \in 0..(Len(dataset) - 1) : IsProducts(At(dataset, x))
    THEN CHOOSE x \in 0..(Len(dataset) - 1) :
            /\ IsProducts(At(dataset, x))
            /\ \A y \in 0..(x - 1) : ~IsProducts(At(dataset, y))
    ELSE -1

define_dataset(dataset, name, geo_default) ==
    LET x == get_exchanges_index(dataset) IN
    IF x < 0 THEN Raise("TypeError")
    ELSE IF x + 1 >= Len(dataset) THEN Raise("IndexError")
    ELSE LET line == At(dataset, x + 1) IN
         IF Len(line) < 6 THEN Raise("IndexError")
         ELSE LET d == detoxify(line[1])
                  ds == [name |-> d[1],
                         unit |-> normalize_units(line[3]),
                         location |-> IF d[2] # PyFalse THEN d[2] ELSE geo_default,
                         categories |-> Split(line[6], "\\")]
              IN  Ok([name |-> ds.name, unit |-> ds.unit, location |-> ds.location,
                      categories |-> ds.categories,
                      code |-> <<name, activity_hash(ds)>>])

IsContinuation(row) == Len(row) > 0 /\ row[1] = ""

\* filter in place of itertools.takewhile
TakeWhileContinuation_Filter(rows) == SelectSeq(rows, IsContinuation)

\* itertools.takewhile(pred, rows)
RECURSIVE TakeWhileContinuation(_)
TakeWhileContinuation(rows) ==
    IF rows # << >> /\ IsContinuation(Head(rows))
    THEN <<Head(rows)>> \o TakeWhileContinuation(Tail(rows))
    ELSE << >>

RECURSIVE MetadataLoop(_, _, _)
MetadataLoop(dataset, index, metadata) ==
    IF index >= Len(dataset) THEN Ok(metadata)
    ELSE LET line == At(dataset, index) IN
         IF IsProducts(line) THEN Ok(metadata)
         ELSE IF ~(Len(line) > 1 /\ line[1] # "" /\ line[2] # "")
              THEN MetadataLoop(dataset, index + 1, metadata)
         ELSE IF index + 1 >= Len(dataset) THEN Raise("IndexError")
         ELSE IF IsContinuation(At(dataset, index + 1))
              THEN LET more == TakeWhileContinuation(From(dataset, index + 1)) IN
                   IF \E i \in DOMAIN more : Len(more[i]) < 2 THEN Raise("IndexError")
                   ELSE MetadataLoop(dataset, index + 1,
                            DictSet(metadata, line[1],
                                List(<<line[2]>> \o [i \in DOMAIN more |-> more[i][2]])))
         ELSE MetadataLoop(dataset, index + 1, DictSet(metadata, line[1], Scalar(line[2])))

get_dataset_metadata(dataset) == MetadataLoop(dataset, 0, EmptyDict)

\* the exchange built from one row of the exchange table
RawExchange(line, label) ==
    IF ~is_number(line[2]) THEN Raise("ValueError")
    ELSE IF Len(line) < 4 THEN Raise("IndexError")
    ELSE Ok([name |-> detoxify(line[1])[1],
             amount |-> float(line[2]).val,
             comment |-> label,
             unit |-> normalize_units(line[3]),
             uncertainty |-> line[4],
             location |-> detoxify(line[1])[2]])

\* the loop of get_exchanges; label is Unset until a one-field row binds it
RECURSIVE ExchangesLoop(_, _, _)
ExchangesLoop(lines, label, exchanges) ==
    IF lines = << >> THEN Ok(exchanges)
    ELSE LET line == Head(lines) IN
         IF Len(line) = 0 THEN ExchangesLoop(Tail(lines), label, exchanges)
         ELSE IF Len(line) = 1 THEN ExchangesLoop(Tail(lines), line[1], exchanges)
         ELSE IF label = Unset THEN Raise("UnboundLocalError")
         ELSE IF label \in SIMAPRO_BIOSPHERE THEN ExchangesLoop(Tail(lines), label, exchanges)
         ELSE LET e == RawExchange(line, label) IN
              IF e.ok THEN ExchangesLoop(Tail(lines), label, Append(exchanges, e.val))
              ELSE e

get_exchanges(dataset) ==
    LET x == get_exchanges_index(dataset) IN
    IF x < 0 THEN Raise("TypeError")
    ELSE IF x + 2 >= Len(dataset) THEN Raise("IndexError")
    ELSE IF Len(At(dataset, x + 2)) # 0 THEN Raise("MultiOutput")
    ELSE ExchangesLoop(From(dataset, x + 3), Unset, << >>)

\* get_production_exchange reading the amount from field 3 of the definition row
get_production_exchange_WrongField(ds, dataset) ==
    LET x == get_exchanges_index(dataset) IN
    IF x < 0 THEN Raise("TypeError")
    ELSE IF x + 1 >= Len(dataset) \/ Len(At(dataset, x + 1)) < 4 THEN Raise("IndexError")
    ELSE LET amount == float(At(dataset, x + 1)[4]) IN
         IF ~amount.ok THEN amount
         ELSE Ok([amount |-> amount.val, input |-> ds.code,
                  uncertainty_type |-> 0, type |-> "production"])

get_production_exchange(ds, dataset) ==
    LET x == get_exchanges_index(dataset) IN
    IF x < 0 THEN Raise("TypeError")
    ELSE IF x + 1 >= Len(dataset) \/ Len(At(dataset, x + 1)) < 2 THEN Raise("IndexError")
    ELSE LET amount == float(At(dataset, x + 1)[2]) IN
         IF ~amount.ok THEN amount
         ELSE Ok([amount |-> amount.val, input |-> ds.code,
                  uncertainty_type |-> 0, type |-> "production"])

process_data(dataset, name, geo_default) ==
    LET ds == define_dataset(dataset, name, geo_default) IN
    IF ~ds.ok THEN ds
    ELSE LET meta == get_dataset_metadata(dataset) IN
    IF ~meta.ok THEN meta
    ELSE LET excs == get_exchanges(dataset) IN
    IF ~excs.ok THEN excs
    ELSE LET prod == get_production_exchange(ds.val, dataset) IN
    IF ~prod.ok THEN prod
    ELSE Ok([name |-> ds.val.name, unit |-> ds.val.unit, location |-> ds.val.location,
             categories |-> ds.val.categories, code |-> ds.val.code,
             simapro_metadata |-> meta.val,
             exchanges |-> Append(excs.val, prod.val)])

-----------------------------------------------------------------------------
(* Foreground and Background indices, Exchange Linker *)

create_foreground(dss) ==
    DictFromPairs([i \in DOMAIN dss |-> <<<<dss[i].name, dss[i].unit>>, dss[i].code>>])

\* the keys load_background writes for one background record
BackgroundKeys(value) ==
    {<<Lower(value.name), value.unit, value.location>>, <<Lower(value.name), value.unit>>}

\* the dicts load_background can build from background_data: when two
\* records write the same key, the one iterated last wins, and the
\* iteration order of a dict is not fixed
BackgroundIndices(background_data) ==
    LET Indices(written) ==
            {bg \in [UNION {written[k] : k \in DOMAIN written} -> DOMAIN written] :
                \A key \in DOMAIN bg : key \in written[bg[key]]}
    IN  UNION {Indices(written) :
                written \in {[k \in DOMAIN background_data |->
                                BackgroundKeys(background_data[k])]}}

SetItem(exc, k, v) == [x \in (DOMAIN exc) \cup {k} |-> IF x = k THEN v ELSE exc[x]]

Linked(exc, input) ==
    SetItem(SetItem(SetItem(exc, "input", input), "type", "technosphere"), "uncertainty_type", 0)

IsProduction(exc) == "type" \in DOMAIN exc /\ exc.type = "production"

\* link_exchange looking in the background before the foreground
link_exchange_BackgroundFirst(exc, fg, bg) ==
    IF IsProduction(exc) THEN Ok(exc)
    ELSE IF <<Lower(exc.name), exc.unit, exc.location>> \in DOMAIN bg
         THEN Ok(Linked(exc, bg[<<Lower(exc.name), exc.unit, exc.location>>]))
    ELSE IF <<exc.name, exc.unit>> \in DOMAIN fg
         THEN Ok(Linked(exc, fg[<<exc.name, exc.unit>>]))
    ELSE Raise("MissingExchange")

link_exchange(exc, fg, bg) ==
    IF IsProduction(exc) THEN Ok(exc)
    ELSE IF <<exc.name, exc.unit>> \in DOMAIN fg
         THEN Ok(Linked(exc, fg[<<exc.name, exc.unit>>]))
    ELSE IF <<Lower(exc.name), exc.unit, exc.location>> \in DOMAIN bg
         THEN Ok(Linked(exc, bg[<<Lower(exc.name), exc.unit, exc.location>>]))
    ELSE IF <<Lower(exc.name), exc.unit, exc.location>> \in DOMAIN bg
         THEN Ok(Linked(exc, bg[<<Lower(exc.name), exc.unit, exc.location>>]))
    ELSE Raise("MissingExchange")

link_exchanges(dataset, fg, bg) ==
    LET rs == [i \in DOMAIN dataset.exchanges |-> link_exchange(dataset.exchanges[i], fg, bg)]
    IN  IF AllOk(rs)
        THEN Ok([dataset EXCEPT !.exchanges = [i \in DOMAIN rs |-> rs[i].val]])
        ELSE Raise(FirstError(rs))

-----------------------------------------------------------------------------
(* The external store: the registry `databases` and Database(name) *)

Exists(dbs, name) == name \in DOMAIN dbs

StoreRegister(dbs, name, meta) == DictSet(dbs, name, meta)

StoreWrite(st, name, collection) == DictSet(st, name, collection)

StoreLoad(dbs, st, name) ==
    IF ~Exists(dbs, name) THEN Raise("MissingDependency")
    ELSE Ok(IF name \in DOMAIN st THEN st[name] ELSE EmptyDict)

Call(op, name) == [op |-> op, name |-> name]

-----------------------------------------------------------------------------
(* SimaProImporter.importer, one action per statement that can end the run *)

Running(at) == pc = at /\ err = NoError

\* importer checking the target name before it reads the file
Verify_DuplicateCheckedFirst ==
    /\ Running("start")
    /\ IF ~overwrite /\ Exists(databases, db_name)
       THEN err' = "AlreadyImported" /\ UNCHANGED <<pc, format>>
       ELSE IF Len(data) = 0 \/ Len(At(data, 0)) = 0
       THEN err' = "IndexError" /\ UNCHANGED <<pc, format>>
       ELSE IF ~Contains(At(data, 0)[1], "SimaPro")
       THEN err' = "NotSimaPro" /\ UNCHANGED <<pc, format>>
       ELSE pc' = "verified" /\ format' = At(data, 0)[1] /\ UNCHANGED err
    /\ UNCHANGED <<data, db_name, overwrite, depends, default_geo, blocks, datasets,
                   foreground, background, databases, store, calls, store0, result>>
    /\ UNCHANGED <<metaVars, schemaVars>>

\* line 122-124: load_file, verify_simapro_file, format = data[0][0]
Verify ==
    /\ Running("start")
    /\ IF Len(data) = 0 \/ Len(At(data, 0)) = 0
       THEN err' = "IndexError" /\ UNCHANGED <<pc, format>>
       ELSE IF ~Contains(At(data, 0)[1], "SimaPro")
       THEN err' = "NotSimaPro" /\ UNCHANGED <<pc, format>>
       ELSE pc' = "verified" /\ format' = At(data, 0)[1] /\ UNCHANGED err
    /\ UNCHANGED <<data, db_name, overwrite, depends, default_geo, blocks, datasets,
                   foreground, background, databases, store, calls, store0, result>>
    /\ UNCHANGED <<metaVars, schemaVars>>

\* line 125
CleanData ==
    /\ Running("verified")
    /\ LET r == clean_data(db_name, data) IN
       IF r.ok
       THEN /\ db_name' = r.val.db_name
            /\ blocks' = r.val.process_data
            /\ pc' = "cleaned"
            /\ UNCHANGED err
       ELSE err' = r.err /\ UNCHANGED <<db_name, blocks, pc>>
    /\ UNCHANGED <<data, overwrite, depends, default_geo, format, datasets,
                   foreground, background, databases, store, calls, store0, result>>
    /\ UNCHANGED <<metaVars, schemaVars>>

\* line 127
ProcessData ==
    /\ Running("cleaned")
    /\ LET r == Collect([i \in DOMAIN blocks |-> process_data(blocks[i], db_name, default_geo)]) IN
       IF r.ok
       THEN datasets' = r.val /\ pc' = "processed" /\ UNCHANGED err
       ELSE err' = r.err /\ UNCHANGED <<datasets, pc>>
    /\ UNCHANGED <<data, db_name, overwrite, depends, default_geo, format, blocks,
                   foreground, background, databases, store, calls, store0, result>>
    /\ UNCHANGED <<metaVars, schemaVars>>

\* line 128
CreateForeground ==
    /\ Running("processed")
    /\ foreground' = create_foreground(datasets)
    /\ pc' = "foreground"
    /\ UNCHANGED <<data, db_name, overwrite, depends, default_geo, err, format, blocks,
                   datasets, background, databases, store, calls, store0, result>>
    /\ UNCHANGED <<metaVars, schemaVars>>

\* background_data after the loop over self.depends
RECURSIVE LoadAll(_, _, _)
LoadAll(dbs, st, names) ==
    IF names = << >> THEN Ok(EmptyDict)
    ELSE LET n == Len(names)
             front == LoadAll(dbs, st, SubSeq(names, 1, n - 1))
             last == StoreLoad(dbs, st, names[n])
         IN  IF ~front.ok THEN front
             ELSE IF ~last.ok THEN last
             ELSE Ok(DictUpdate(front.val, last.val))

\* line 129: load_background
LoadBackground ==
    /\ Running("foreground")
    /\ LET r == LoadAll(databases, store, depends) IN
       IF r.ok
       THEN /\ background' \in BackgroundIndices(r.val)
            /\ pc' = "background"
            /\ UNCHANGED err
       ELSE err' = r.err /\ UNCHANGED <<background, pc>>
    /\ UNCHANGED <<data, db_name, overwrite, depends, default_geo, format, blocks,
                   datasets, foreground, databases, store, calls, store0, result>>
    /\ UNCHANGED <<metaVars, schemaVars>>

\* line 130
LinkExchanges ==
    /\ Running("background")
    /\ LET r == Collect([i \in DOMAIN datasets |->
                            link_exchanges(datasets[i], foreground, background)]) IN
       IF r.ok
       THEN datasets' = r.val /\ pc' = "linked" /\ UNCHANGED err
       ELSE err' = r.err /\ UNCHANGED <<datasets, pc>>
    /\ UNCHANGED <<data, db_name, overwrite, depends, default_geo, format, blocks,
                   foreground, background, databases, store, calls, store0, result>>
    /\ UNCHANGED <<metaVars, schemaVars>>

\* what `self.<name>` can resolve to: the attributes bound by __init__ and
\* the methods of the class
SelfAttributes ==
    {"filepath", "delimiter", "depends", "overwrite", "db_name", "default_geo", "log", "logfile"}
SelfMethods ==
    {"importer", "load_file", "verify_simapro_file", "clean_data", "get_process_indices",
     "process_data", "define_dataset", "get_dataset_metadata", "get_exchanges",
     "get_exchanges_index", "get_production_exchange", "create_foreground",
     "load_background", "link_exchanges", "link_exchange"}
HasAttr(name) == name \in SelfAttributes \cup SelfMethods

\* the path returned by get_io_logger
LogFile == "SimaPro importer.log"

\* the overwrite policy registering the collection before it checks the name
CommitPolicy_RegisterFirst ==
    /\ Running("linked")
    /\ IF ~overwrite
       THEN /\ databases' = StoreRegister(databases, db_name,
                        [format |-> format, depends |-> depends,
                         num_processes |-> Len(datasets)])
            /\ calls' = Append(calls, Call("register", db_name))
            /\ IF Exists(databases, db_name)
               THEN err' = "AlreadyImported" /\ UNCHANGED pc
               ELSE pc' = "ready" /\ UNCHANGED err
       ELSE IF Exists(databases, db_name)
            THEN IF HasAttr("warning")
                 THEN pc' = "ready" /\ UNCHANGED <<err, databases, calls>>
                 ELSE err' = "AttributeError" /\ UNCHANGED <<pc, databases, calls>>
            ELSE pc' = "ready" /\ UNCHANGED <<err, databases, calls>>
    /\ UNCHANGED <<data, db_name, overwrite, depends, default_geo, format, blocks,
                   datasets, foreground, background, store, store0, result>>
    /\ UNCHANGED <<metaVars, schemaVars>>

\* lines 131-147: the overwrite policy; line 146 calls self.warning
CommitPolicy ==
    /\ Running("linked")
    /\ IF ~overwrite
       THEN IF Exists(databases, db_name)
            THEN err' = "AlreadyImported" /\ UNCHANGED <<pc, databases, calls>>
            ELSE /\ databases' = StoreRegister(databases, db_name,
                        [format |-> format, depends |-> depends,
                         num_processes |-> Len(datasets)])
                 /\ calls' = Append(calls, Call("register", db_name))
                 /\ pc' = "ready"
                 /\ UNCHANGED err
       ELSE IF Exists(databases, db_name)
            THEN IF HasAttr("warning")
                 THEN pc' = "ready" /\ UNCHANGED <<err, databases, calls>>
                 ELSE err' = "AttributeError" /\ UNCHANGED <<pc, databases, calls>>
            ELSE pc' = "ready" /\ UNCHANGED <<err, databases, calls>>
    /\ UNCHANGED <<data, db_name, overwrite, depends, default_geo, format, blocks,
                   datasets, foreground, background, store, store0, result>>
    /\ UNCHANGED <<metaVars, schemaVars>>

\* line 148
Write ==
    /\ Running("ready")
    /\ store' = StoreWrite(store, db_name,
                    DictFromPairs([i \in DOMAIN datasets |-> <<datasets[i].code, datasets[i]>>]))
    /\ calls' = Append(calls, Call("write", db_name))
    /\ pc' = "written"
    /\ UNCHANGED <<data, db_name, overwrite, depends, default_geo, err, format, blocks,
                   datasets, foreground, background, databases, store0, result>>
    /\ UNCHANGED <<metaVars, schemaVars>>

\* line 149
Process ==
    /\ Running("written")
    /\ calls' = Append(calls, Call("process", db_name))
    /\ pc' = "committed"
    /\ UNCHANGED <<data, db_name, overwrite, depends, default_geo, err, format, blocks,
                   datasets, foreground, background, databases, store, store0, result>>
    /\ UNCHANGED <<metaVars, schemaVars>>

\* line 150: return self.db_name, self.logile
Return ==
    /\ Running("committed")
    /\ IF HasAttr("logile")
       THEN pc' = "returned" /\ result' = <<db_name, LogFile>> /\ UNCHANGED err
       ELSE err' = "AttributeError" /\ UNCHANGED <<pc, result>>
    /\ UNCHANGED <<data, db_name, overwrite, depends, default_geo, format, blocks,
                   datasets, foreground, background, databases, store, calls, store0>>
    /\ UNCHANGED <<metaVars, schemaVars>>

importer ==
    \/ Verify
    \/ CleanData
    \/ ProcessData
    \/ CreateForeground
    \/ LoadBackground
    \/ LinkExchanges
    \/ CommitPolicy
    \/ Write
    \/ Process
    \/ Return

-----------------------------------------------------------------------------
(* Inputs of an import run *)

MaxBlocks == 2

Header == <<"{SimaPro 7.3.3}">>
ProjectRow == <<"Project", "DB">>

Block(meta, definition, after, table) ==
    <<<<"Process">>>> \o meta \o <<<<"Products">>, definition, after>> \o table

Definition(name, amount) == <<name, amount, "kg", "100", "not defined", "Materials\\Parts">>
Input(name, amount) == <<name, amount, "kg", "Undefined">>

WidgetBlock ==
    Block(<<<<"Category type", "material">>, << >>>>, Definition("Widget/CH U", "1"), << >>,
          <<<<"Materials/fuels">>, Input("Steel/RER U", "2.5")>>)
GadgetBlock ==
    Block(<< >>, Definition("Gadget", "2.50"), << >>,
          <<<<"Materials/fuels">>, Input("Widget/CH U", "2.5"), << >>,
            <<"Emissions to air">>, Input("Carbon dioxide", "1")>>)
BoltBlock ==
    Block(<< >>, Definition("Bolt/RER U", "1"), << >>,
          <<<<"Materials/fuels">>, Input("Steel", "0.5")>>)
NutBlock ==
    Block(<< >>, Definition("Nut/RER U", "1"), << >>,
          <<<<"Materials/fuels">>, Input("Unobtainium/CH U", "3")>>)
TwoProductsBlock ==
    Block(<< >>, Definition("Pipe/CH U", "1"), Definition("Scrap/CH U", "1"), << >>)
BadAmountBlock ==
    Block(<< >>, Definition("Rod/CH U", "1"), << >>,
          <<<<"Materials/fuels">>, Input("Steel/RER U", "1,5")>>)

BlockTemplates ==
    {WidgetBlock, GadgetBlock, BoltBlock, NutBlock, TwoProductsBlock, BadAmountBlock}

RECURSIVE Flatten(_)
Flatten(seqs) == IF seqs = << >> THEN << >> ELSE Head(seqs) \o Flatten(Tail(seqs))

SeqsUpTo(S, n) == UNION {[1..k -> S] : k \in 0..n}

Files ==
    {<<Header, ProjectRow, << >>>> \o Flatten(bs) : bs \in SeqsUpTo(BlockTemplates, MaxBlocks)}
    \cup {<<<<"sep=;">>, ProjectRow>> \o WidgetBlock,
          <<Header, <<"Date", "2013">>>> \o WidgetBlock}

\* the dependency collection
EcoData ==
    (<<"eco", "w1">> :> [name |-> "Widget", unit |-> "kilogram", location |-> "CH"]) @@
    (<<"eco", "s1">> :> [name |-> "Steel", unit |-> "kilogram", location |-> "RER"]) @@
    (<<"eco", "s2">> :> [name |-> "Steel", unit |-> "kilogram", location |-> "GLO"])

\* a collection imported earlier under the target name
OldData == (<<"DB", "old">> :> [name |-> "Old", exchanges |-> << >>])
OldMeta == [format |-> "{SimaPro 7.2}", depends |-> << >>, num_processes |-> 1]

Stores ==
    {[dbs |-> [n \in present |-> OldMeta],
      st |-> [n \in present |-> IF n = "eco" THEN EcoData ELSE OldData]] :
        present \in SUBSET {"eco", "DB"}}

\* meta.py and backends/schema.py untouched: an empty Mapping, an empty
\* database, `ids` as the module defines it
NoCall == [op |-> "none", keys |-> << >>]
MetaIdle == mapping = EmptyDict /\ pickled = EmptyDict /\ mapping0 = EmptyDict /\ called = NoCall
SchemaIdle ==
    /\ ids = << >>
    /\ ActivityDataset = {}
    /\ ProductDataset = {}
    /\ pending = << >>
    /\ returned = << >>

Init ==
    /\ data \in Files
    /\ db_name \in {PyNone, "DB"}
    /\ overwrite \in BOOLEAN
    /\ depends = <<"eco">>
    /\ default_geo = "GLO"
    /\ pc = "start"
    /\ err = NoError
    /\ format = Unset
    /\ blocks = << >>
    /\ datasets = << >>
    /\ foreground = EmptyDict
    /\ background = EmptyDict
    /\ \E s \in Stores : databases = s.dbs /\ store = s.st /\ store0 = <<s.dbs, s.st>>
    /\ calls = << >>
    /\ result = Unset
    /\ MetaIdle
    /\ SchemaIdle

Next == importer

Spec == Init /\ [][Next]_vars


-----------------------------------------------------------------------------
(* Properties of an import run *)

Failed == err # NoError
PostLink == {"linked", "ready", "written", "committed", "returned"}
PostProcess == {"processed", "foreground", "background"} \cup PostLink
Called(op) == \E i \in DOMAIN calls : calls[i].op = op
AllLinked ==
    /\ Len(datasets) = Len(blocks)
    /\ \A i \in DOMAIN datasets : \A j \in DOMAIN datasets[i].exchanges :
            "input" \in DOMAIN datasets[i].exchanges[j]
Inputs(i) == {j \in DOMAIN datasets[i].exchanges : ~IsProduction(datasets[i].exchanges[j])}
BackgroundKey(e, location) == <<Lower(e.name), e.unit, location>>

FatalErrors ==
    {"NotSimaPro", "MultiOutput", "ValueError", "MissingDependency", "MissingExchange",
     "AlreadyImported"}

C2_OverwriteSucceeds ==
    /\ (overwrite /\ Exists(store0[1], db_name) /\ pc = "linked") => ~Failed
    /\ (overwrite /\ Exists(store0[1], db_name) /\ pc \in PostLink /\ pc # "linked") =>
            /\ Called("write")
            /\ store[db_name] =
                  DictFromPairs([i \in DOMAIN datasets |-> <<datasets[i].code, datasets[i]>>])

\* C3: the duplicate-import error is raised only at the commit point, after
\* the indices are built and every block is linked, and only when overwrite is
\* false and the name exists; a run that reaches the commit point with
\* overwrite false and an existing name fails there with that error.  So a
\* run with an unlinkable exchange never ends in the duplicate-import error.
C3_DuplicateCheckedAtCommit ==
    /\ [](err = "AlreadyImported" =>
            /\ pc = "linked"
            /\ ~overwrite
            /\ Exists(databases, db_name)
            /\ AllLinked)
    /\ [][(pc = "linked" /\ ~Failed /\ ~overwrite /\ Exists(databases, db_name))
            => err' = "AlreadyImported"]_vars

C3_Witness ==
    /\ err = "AlreadyImported"
    /\ Len(datasets) > 0

\* C4: a run with a valid file, all exchanges linked and a fresh name
\* (overwrite = false) does not end in an error after write and process.
C4_ReturnsAfterCommit ==
    (~overwrite /\ ~Exists(store0[1], db_name) /\ pc = "committed") => ~Failed

\* C5: after linking, every non-production exchange whose (name, unit) is a
\* key of the foreground is bound to the foreground code, also when its
\* (lower(name), unit, location) is a key of the background; the background
\* key is used only when the foreground has no (name, unit) entry.
C5_ForegroundPrecedence ==
    pc \in PostLink =>
        \A i \in DOMAIN datasets : \A j \in Inputs(i) :
            LET e == datasets[i].exchanges[j] IN
                IF <<e.name, e.unit>> \in DOMAIN foreground
                THEN e.input = foreground[<<e.name, e.unit>>]
                ELSE /\ BackgroundKey(e, e.location) \in DOMAIN background
                     /\ e.input = background[BackgroundKey(e, e.location)]

C5_Witness ==
    /\ pc = "linked"
    /\ \E i \in DOMAIN datasets : \E j \in Inputs(i) :
            LET e == datasets[i].exchanges[j] IN
                /\ <<e.name, e.unit>> \in DOMAIN foreground
                /\ BackgroundKey(e, e.location) \in DOMAIN background
                /\ e.input # background[BackgroundKey(e, e.location)]

\* C6: an exchange whose name has no geography suffix gets the default
\* location, so that a run does not fail on an exchange that matches a
\* background record at the default location.
C6_DefaultLocationSubstituted ==
    /\ (pc \in PostProcess) =>
            \A i \in DOMAIN datasets : \A j \in Inputs(i) :
                datasets[i].exchanges[j].location # PyFalse
    /\ (err = "MissingExchange") =>
            \E i \in DOMAIN datasets : \E j \in Inputs(i) :
                LET e == datasets[i].exchanges[j] IN
                    /\ <<e.name, e.unit>> \notin DOMAIN foreground
                    /\ BackgroundKey(e, IF e.location = PyFalse THEN default_geo ELSE e.location)
                            \notin DOMAIN background

\* C8: every dataset made by process_data, before and after linking, has
\* exactly one production exchange; its amount is field 1 of the row after the
\* Products row and its input is the dataset's code; after linking every other
\* exchange has type technosphere.
C8_OneProductionExchange ==
    pc \in PostProcess =>
        \A i \in DOMAIN datasets :
            LET excs == datasets[i].exchanges
                definition == At(blocks[i], get_exchanges_index(blocks[i]) + 1)
            IN  /\ Cardinality({j \in DOMAIN excs : IsProduction(excs[j])}) = 1
                /\ \A j \in DOMAIN excs :
                        IF IsProduction(excs[j])
                        THEN /\ excs[j].amount = float(definition[2]).val
                             /\ excs[j].input = datasets[i].code
                        ELSE pc \in PostLink => excs[j].type = "technosphere"

C8_Witness ==
    /\ pc = "linked"
    /\ \E i \in DOMAIN datasets :
            /\ Len(datasets[i].exchanges) >= 2
            /\ float(At(blocks[i], get_exchanges_index(blocks[i]) + 1)[2]).val = <<25, 1>>

\* the collection held by the store under the target name
Written == store[db_name]

\* C11: after the write call of a run with overwrite = false, the collection
\* written under the target name holds one dataset per block, under its code:
\* the number of datasets written equals the num_processes registered for the
\* name and the number of blocks found by clean_data, also when two blocks
\* have the same name, unit, location and categories.
C11_WrittenCollectionComplete ==
    (~overwrite /\ pc \in {"written", "committed"}) =>
        /\ \A i \in DOMAIN datasets :
                /\ datasets[i].code \in DOMAIN Written
                /\ Written[datasets[i].code] = datasets[i]
        /\ Cardinality(DOMAIN Written) = databases[db_name].num_processes
        /\ databases[db_name].num_processes = Len(blocks)

-----------------------------------------------------------------------------
(* The Dataset Segmenter on its own: clean_data applied to bounded files *)

MaxRows == 5

\* a state in which nothing but `rows` and the position `at` has been set
Idle(rows, name, at) ==
    /\ data = rows
    /\ db_name = name
    /\ overwrite = FALSE
    /\ depends = <<"eco">>
    /\ default_geo = "GLO"
    /\ pc = at
    /\ err = NoError
    /\ format = Unset
    /\ blocks = << >>
    /\ datasets = << >>
    /\ foreground = EmptyDict
    /\ background = EmptyDict
    /\ databases = EmptyDict
    /\ store = EmptyDict
    /\ calls = << >>
    /\ store0 = <<EmptyDict, EmptyDict>>
    /\ result = Unset
    /\ MetaIdle
    /\ SchemaIdle

SegmenterRows == {<< >>, <<"Process">>, <<"Process", "">>, <<"Category type", "material">>}

InitSegmenter ==
    \E second \in {ProjectRow, <<"Process">>} : \E rows \in SeqsUpTo(SegmenterRows, MaxRows) :
        \E name \in {PyNone, "DB"} :
            Idle(<<Header, second>> \o rows, name, "verified")

SpecSegmenter == InitSegmenter /\ [][CleanData]_vars

IsMarkerRow(row) == row = <<"Process">>
MarkerRows(from) == {i \in from..(Len(data) - 1) : IsMarkerRow(At(data, i))}
NotMarkerRow(row) == ~IsMarkerRow(row)
FirstOf(S) == CHOOSE i \in S : \A j \in S : i <= j

\* C7 as stated: with K marker rows after the two header rows, clean_data
\* yields K blocks
\* which, in input order and together with the two header rows, make up the
\* whole input, each row once (the marker rows counted in the blocks or not).
C7_BlocksCoverInput ==
    pc = "cleaned" =>
        /\ Len(blocks) = Cardinality(MarkerRows(2))
        /\ \/ Flatten(blocks) = From(data, 2)
           \/ Flatten(blocks) = SelectSeq(From(data, 2), NotMarkerRow)

\* C7 as amended: with K marker rows at index 2 or later, clean_data yields K
\* blocks; each block starts with its marker row and holds no other marker
\* row; in input order the blocks make up the input from the first such
\* marker row to the end, each row once, so the rows between the two header
\* rows and the first marker row are in no block; with K = 0 there are no
\* blocks, and clean_data raises nothing when the name is given.
C7_BlocksFromFirstMarker ==
    /\ pc = "cleaned" =>
            /\ Len(blocks) = Cardinality(MarkerRows(2))
            /\ Flatten(blocks) =
                  IF MarkerRows(2) = {} THEN << >> ELSE From(data, FirstOf(MarkerRows(2)))
            /\ \A b \in DOMAIN blocks :
                    /\ Len(blocks[b]) >= 1
                    /\ IsMarkerRow(blocks[b][1])
                    /\ \A k \in 2..Len(blocks[b]) : ~IsMarkerRow(blocks[b][k])
    /\ (pc = "verified" /\ Failed) => db_name = PyNone /\ At(data, 1)[1] # "Project"

C7_Witness ==
    /\ pc = "cleaned"
    /\ Len(blocks) = 2
    /\ ~IsMarkerRow(At(data, 2))
    /\ Len(blocks[1]) >= 2

-----------------------------------------------------------------------------
(* The Exchange Extractor on its own: get_exchanges applied to bounded blocks *)

MaxTable == 5

GetExchanges ==
    /\ Running("block")
    /\ result' = get_exchanges(data)
    /\ pc' = "exchanges"
    /\ UNCHANGED <<data, db_name, overwrite, depends, default_geo, err, format, blocks,
                   datasets, foreground, background, databases, store, calls, store0>>
    /\ UNCHANGED <<metaVars, schemaVars>>

TableRows ==
    {<< >>, <<"Materials/fuels">>, <<"Emissions to air">>, <<"Resources">>,
     Input("Steel/RER U", "2.5"), <<"Carbon dioxide", "1", "kg", "Lognormal">>,
     Input("Zinc", "1,5")}

InitExchanges ==
    \E table \in SeqsUpTo(TableRows, MaxTable) :
        Idle(Block(<<<<"Comment", "c">>>>, Definition("Widget/CH U", "1"), << >>, table),
             "DB", "block")

SpecExchanges == InitExchanges /\ [][GetExchanges]_vars

ReservedLabels == {"Resources", "Emissions to air", "Emissions to water", "Emissions to soil"}

\* the rows of the exchange table: those after the Products row, the
\* definition row and the row that follows it
Table == From(data, get_exchanges_index(data) + 3)

\* the label a row lies under: the field of the last one-field row before it
LabelAt(j) ==
    LET labels == {k \in 1..(j - 1) : Len(Table[k]) = 1} IN
        IF labels = {} THEN Unset
        ELSE Table[CHOOSE k \in labels : \A l \in labels : l <= k][1]

IsKept(j) == Len(Table[j]) > 1 /\ LabelAt(j) \notin ReservedLabels
KeptRows == SelectSeq(Range(1, Len(Table) + 1), IsKept)

\* C9: when get_exchanges returns, its exchanges are, in row order, one for
\* each multi-field row of the exchange table that lies under a non-reserved
\* label, carrying that label; no row under a reserved label gives one; the
\* label of a row is the field of the last one-field row before it.
C9_NoBiosphereExchanges ==
    (pc = "exchanges" /\ result.ok) =>
        /\ Len(result.val) = Len(KeptRows)
        /\ \A k \in DOMAIN result.val :
                /\ result.val[k].comment = LabelAt(KeptRows[k])
                /\ result.val[k].comment \notin ReservedLabels
                /\ result.val[k].name = detoxify(Table[KeptRows[k]][1])[1]
                /\ result.val[k].uncertainty = Table[KeptRows[k]][4]

C9_Witness ==
    /\ pc = "exchanges"
    /\ result.ok
    /\ Len(result.val) = 1
    /\ \E j \in DOMAIN Table :
            /\ Len(Table[j]) > 1
            /\ LabelAt(j) \in ReservedLabels
            /\ \E k \in DOMAIN Table : k > j + 1 /\ IsKept(k) /\ Table[k - 1] = << >>

-----------------------------------------------------------------------------
(* The Metadata Extractor on its own: get_dataset_metadata applied to     *)
(* bounded blocks, with and without a Products row                         *)

MaxMeta == 4

GetDatasetMetadata ==
    /\ Running("block")
    /\ result' = get_dataset_metadata(data)
    /\ pc' = "metadata"
    /\ UNCHANGED <<data, db_name, overwrite, depends, default_geo, err, format, blocks,
                   datasets, foreground, background, databases, store, calls, store0>>
    /\ UNCHANGED <<metaVars, schemaVars>>

MetadataRows ==
    {<<"Comment", "v">>, <<"Comment", "w", "x">>, <<"Date", "d">>, <<"", "a">>, << >>,
     <<"Comment", "">>, <<"">>}

InitMetadata ==
    \E meta \in SeqsUpTo(MetadataRows, MaxMeta) :
        \E rest \in {<< >>, <<<<"Products">>, Definition("Widget/CH U", "1"), << >>>>} :
            Idle(<<<<"Process">>>> \o meta \o rest, "DB", "block")

SpecMetadata == InitMetadata /\ [][GetDatasetMetadata]_vars

\* index of the Products row, or the length of the block
ProductsAt ==
    IF \E i \in 0..(Len(data) - 1) : Len(At(data, i)) > 0 /\ At(data, i)[1] = "Products"
    THEN FirstOf({i \in 0..(Len(data) - 1) : Len(At(data, i)) > 0 /\ At(data, i)[1] = "Products"})
    ELSE Len(data)

\* the rows (key, value, ...) before the Products row
IsEntry(i) ==
    /\ i < ProductsAt
    /\ Len(At(data, i)) >= 2
    /\ At(data, i)[1] # ""
    /\ At(data, i)[2] # ""
Entries == {i \in 0..(Len(data) - 1) : IsEntry(i)}
LastEntry(key) ==
    CHOOSE i \in Entries :
        /\ At(data, i)[1] = key
        /\ \A j \in Entries : At(data, j)[1] = key => j <= i

HasEmptyFirstField(i) == i < Len(data) /\ Len(At(data, i)) > 0 /\ At(data, i)[1] = ""
HasFirstField(i) == i < Len(data) /\ Len(At(data, i)) > 0 /\ At(data, i)[1] # ""
IsBlank(i) == i < Len(data) /\ Len(At(data, i)) = 0

SecondFields(rows) == [k \in DOMAIN rows |-> rows[k][2]]
HasSecondField(row) == Len(row) >= 2

\* the entry of a row when the collection stops only at a row with a
\* non-empty first field or at the end of the block
EntryStoppingAtFirstField(i) ==
    IF HasEmptyFirstField(i + 1)
    THEN LET stop == FirstOf({j \in (i + 1)..Len(data) : j = Len(data) \/ HasFirstField(j)})
         IN  List(<<At(data, i)[2]>> \o
                  SecondFields(SelectSeq(Slice(data, i + 1, stop), HasSecondField)))
    ELSE Scalar(At(data, i)[2])

\* the entry of a row when the collection also stops at a row without fields
EntryStoppingAtBlank(i) ==
    IF HasEmptyFirstField(i + 1)
    THEN LET stop == FirstOf({j \in (i + 1)..Len(data) :
                                j = Len(data) \/ HasFirstField(j) \/ IsBlank(j)})
         IN  List(<<At(data, i)[2]>> \o SecondFields(Slice(data, i + 1, stop)))
    ELSE Scalar(At(data, i)[2])

\* C10 as stated: when get_dataset_metadata returns, its keys are the first
\* fields of the rows (key, value, ...) before the Products row, and the entry
\* of a key is that of its last such row: the list of value and the second
\* fields of the rows that follow, up to the first row whose first field is
\* non-empty or the end of the block and no sooner, if the next row has an
\* empty first field, else the scalar value.
C10_ListStopsAtFirstField ==
    (pc = "metadata" /\ result.ok) =>
        /\ DOMAIN result.val = {At(data, i)[1] : i \in Entries}
        /\ \A key \in DOMAIN result.val :
                result.val[key] = EntryStoppingAtFirstField(LastEntry(key))

\* C10 as amended: the same, but the collection of second fields stops at
\* the first row that has no fields, at the first row whose first field is
\* non-empty, or at the end of the block, whichever comes first.
C10_ListStopsAtBlankRow ==
    (pc = "metadata" /\ result.ok) =>
        /\ DOMAIN result.val = {At(data, i)[1] : i \in Entries}
        /\ \A key \in DOMAIN result.val :
                result.val[key] = EntryStoppingAtBlank(LastEntry(key))

C10_Witness ==
    /\ pc = "metadata"
    /\ result.ok
    /\ \E i \in Entries :
            /\ i = LastEntry(At(data, i)[1])
            /\ HasEmptyFirstField(i + 1)
            /\ IsBlank(i + 2)
            /\ HasEmptyFirstField(i + 3)
            /\ result.val[At(data, i)[1]] = List(<<At(data, i)[2], At(data, i + 1)[2]>>)

-----------------------------------------------------------------------------
(* Mapping (meta.py): add and delete on the dictionary self.data *)

MaxKeys == 3
MaxIndex == 5

MappingKeys == {"GLO", "CH"}

MaxOf(S) == CHOOSE x \in S : \A y \in S : y <= x
Values(d) == {d[k] : k \in DOMAIN d}
DictDel(d, key) == [k \in (DOMAIN d) \ {key} |-> d[k]]

\* lines 27-29: the loop over enumerate(keys), from position i on
RECURSIVE AddLoop(_, _, _, _)
AddLoop(d, keys, index, i) ==
    IF i >= Len(keys) THEN d
    ELSE LET key == At(keys, i) IN
             AddLoop(IF key \notin DOMAIN d THEN DictSet(d, key, index + i + 1) ELSE d,
                     keys, index, i + 1)

\* add with the number of keys as the starting index
add_LenIndex(d, keys) ==
    LET index == Cardinality(DOMAIN d) IN AddLoop(d, keys, index, 0)

\* lines 26-29: self.data after add(keys)
add(d, keys) ==
    LET index == IF DOMAIN d # {} THEN MaxOf(Values(d)) ELSE 0 IN AddLoop(d, keys, index, 0)

\* lines 40-41: self.data after the loop of delete(keys); `del` of a key that
\* is not there raises KeyError and leaves the keys before it deleted
RECURSIVE delete(_, _)
delete(d, keys) ==
    IF keys = << >> THEN [ok |-> TRUE, err |-> NoError, val |-> d]
    ELSE IF Head(keys) \notin DOMAIN d THEN [ok |-> FALSE, err |-> "KeyError", val |-> d]
    ELSE delete(DictDel(d, Head(keys)), Tail(keys))

KeyLists == SeqsUpTo(MappingKeys, MaxKeys)

\* Mapping.add(keys), flush included
Add ==
    \E keys \in KeyLists :
        LET d == add(mapping, keys) IN
            /\ \A k \in DOMAIN d : d[k] <= MaxIndex
            /\ mapping' = d
            /\ pickled' = d
            /\ mapping0' = mapping
            /\ called' = [op |-> "add", keys |-> keys]
            /\ err' = NoError
            /\ UNCHANGED <<data, db_name, overwrite, depends, default_geo, pc, format, blocks,
                           datasets, foreground, background, databases, store, calls, store0,
                           result>>
            /\ UNCHANGED schemaVars

\* Mapping.delete(keys); flush is reached only when no `del` raised
Delete ==
    \E keys \in KeyLists :
        LET r == delete(mapping, keys) IN
            /\ mapping' = r.val
            /\ pickled' = IF r.ok THEN r.val ELSE pickled
            /\ mapping0' = mapping
            /\ called' = [op |-> "delete", keys |-> keys]
            /\ err' = r.err
            /\ UNCHANGED <<data, db_name, overwrite, depends, default_geo, pc, format, blocks,
                           datasets, foreground, background, databases, store, calls, store0,
                           result>>
            /\ UNCHANGED schemaVars

Injective(d) == \A j, k \in DOMAIN d : d[j] = d[k] => j = k

\* the mappings a Mapping can hold when it is loaded: empty, or injective
InjectiveMappings ==
    UNION {{d \in [present -> 1..MaxIndex] : Injective(d)} : present \in SUBSET MappingKeys}

InitMapping ==
    /\ Idle(<< >>, PyNone, "meta")
    /\ \E d \in InjectiveMappings : mapping = d /\ pickled = d /\ mapping0 = d
    /\ called = NoCall

MappingNext == Add \/ Delete

SpecMapping == InitMapping /\ [][MappingNext]_vars

Elems(seq) == {seq[i] : i \in DOMAIN seq}
HasDuplicate(seq) == \E i, j \in DOMAIN seq : i # j /\ seq[i] = seq[j]

\* C12: the mapping is injective after every add and delete; and after
\* add(keys) every key that was present has the value it had, and every key of
\* keys that was not present has a value greater than every value that was
\* present before the call, also when keys holds duplicates or present keys.
C12_MappingInjective ==
    /\ Injective(mapping)
    /\ called.op = "add" =>
            /\ \A k \in DOMAIN mapping0 : k \in DOMAIN mapping /\ mapping[k] = mapping0[k]
            /\ \A k \in Elems(called.keys) \ DOMAIN mapping0 :
                    /\ k \in DOMAIN mapping
                    /\ \A j \in DOMAIN mapping0 : mapping[k] > mapping0[j]

C12_Witness ==
    /\ called.op = "add"
    /\ HasDuplicate(called.keys)
    /\ Elems(called.keys) \cap DOMAIN mapping0 # {}
    /\ Elems(called.keys) \ DOMAIN mapping0 # {}
    /\ MaxOf(Values(mapping0)) > Cardinality(DOMAIN mapping0)

-----------------------------------------------------------------------------
(* create_unique_id (backends/schema.py) and the two tables whose matrix_id *)
(* field takes it as default                                                *)

MaxDatasets == 3

\* [x.id for x in Table.select(Table.id)]
RECURSIVE SelectIds(_)
SelectIds(table) ==
    IF table = {} THEN << >>
    ELSE LET x == CHOOSE r \in table : \A q \in table : r.id <= q.id
         IN  <<x.id>> \o SelectIds(table \ {x})

RECURSIVE InsertSorted(_, _)
InsertSorted(x, seq) ==
    IF seq = << >> THEN <<x>>
    ELSE IF x <= Head(seq) THEN <<x>> \o seq
    ELSE <<Head(seq)>> \o InsertSorted(x, Tail(seq))

\* list.sort()
RECURSIVE Sort(_)
Sort(seq) == IF seq = << >> THEN << >> ELSE InsertSorted(Head(seq), Sort(Tail(seq)))

\* lines 9-17: the list `ids` after the call and the value returned
create_unique_id(l, activities, products) ==
    LET loaded == IF l = << >>
                  THEN Sort(SelectIds(activities) \o SelectIds(products))
                  ELSE l
    IN  IF loaded = << >>
        THEN [ids |-> loaded, val |-> 0]
        ELSE [ids |-> Append(loaded, loaded[Len(loaded)] + 1),
              val |-> loaded[Len(loaded)] + 1]

\* the id and matrix_id values of the saved rows
StoredIds ==
    {r.id : r \in ActivityDataset \cup ProductDataset}
        \cup {r.matrix_id : r \in ActivityDataset \cup ProductDataset}

Datasets == Cardinality(ActivityDataset) + Cardinality(ProductDataset) + Len(pending)

\* constructing an instance of `model` without a matrix_id: the field default
\* calls create_unique_id
New(model) ==
    /\ Datasets < MaxDatasets
    /\ LET r == create_unique_id(ids, ActivityDataset, ProductDataset) IN
            /\ ids' = r.ids
            /\ pending' = Append(pending, [model |-> model, matrix_id |-> r.val])
            /\ returned' = Append(returned, [id |-> r.val, stored |-> StoredIds])
    /\ UNCHANGED <<ActivityDataset, ProductDataset>>
    /\ UNCHANGED <<importerVars, metaVars>>

NewActivityDataset == New("ActivityDataset")
NewProductDataset == New("ProductDataset")

\* the primary key the database gives to a new row of the table
NextId(table) == IF table = {} THEN 1 ELSE MaxOf({r.id : r \in table}) + 1

Remove(seq, i) == SubSeq(seq, 1, i - 1) \o SubSeq(seq, i + 1, Len(seq))

\* save() of an instance constructed earlier
Save ==
    \E i \in DOMAIN pending :
        /\ IF pending[i].model = "ActivityDataset"
           THEN /\ ActivityDataset' = ActivityDataset \cup
                        {[id |-> NextId(ActivityDataset), matrix_id |-> pending[i].matrix_id]}
                /\ UNCHANGED ProductDataset
           ELSE /\ ProductDataset' = ProductDataset \cup
                        {[id |-> NextId(ProductDataset), matrix_id |-> pending[i].matrix_id]}
                /\ UNCHANGED ActivityDataset
        /\ pending' = Remove(pending, i)
        /\ UNCHANGED <<ids, returned>>
        /\ UNCHANGED <<importerVars, metaVars>>

\* line 6, run when the module is imported by a new process on the same
\* database: ids = []
ImportSchema ==
    /\ ids' = << >>
    /\ pending' = << >>
    /\ returned' = << >>
    /\ UNCHANGED <<ActivityDataset, ProductDataset>>
    /\ UNCHANGED <<importerVars, metaVars>>

InitSchema == Idle(<< >>, PyNone, "schema")

SchemaNext == NewActivityDataset \/ NewProductDataset \/ Save \/ ImportSchema

SpecSchema == InitSchema /\ [][SchemaNext]_vars

\* C13: the values returned by create_unique_id since the module was
\* imported are pairwise distinct, and each differs from every id and
\* matrix_id of the rows that were saved when it was returned.
C13_IdsNeverRepeat ==
    /\ \A i, j \in DOMAIN returned : returned[i].id = returned[j].id => i = j
    /\ \A i \in DOMAIN returned : returned[i].id \notin returned[i].stored

====
